---- MODULE Spec2Model ----
(***************************************************************************)
(* Model of the TCP broadcaster of src/src/main.rs: `main` spawns `run`,   *)
(* which connects to the source, binds the listener and then loops on a    *)
(* tokio::select! over the cancellation token, a read from the source and  *)
(* an accept on the listener.                                              *)
(*                                                                         *)
(* Bytes of the source stream are labelled by their position in the        *)
(* stream (the i-th byte the source ever produces is the number i), so     *)
(* that every byte is distinct and a misplaced, repeated or stale byte is  *)
(* visible.  Connections accepted by the listener are numbered in the      *)
(* order of their acceptance.                                              *)
(*                                                                         *)
(* written[s] is the sequence of bytes that the writer wrapped around sink *)
(* s has taken from the code (the sum of the Ok(k) results of write_buf).  *)
(* That writer is a BufWriter which the code never flushes; what becomes   *)
(* of the bytes after the writer took them is outside this model.          *)
(***************************************************************************)
EXTENDS Integers, Sequences, FiniteSets, TLC

\* Bounds of the model.
MaxSinks == 3       \* connections the listener accepts in a run
MaxBytes == 3       \* bytes the source produces in a run
MaxRead  == 2       \* bytes one read of the source returns at most
LongBytes == 1030   \* bytes the source produces in a long run without sinks

\* const BUFFER_SIZE: usize = 1024, the capacity the BytesMut is created with.
BUFFER_SIZE == 1024

ConnIds == 1..MaxSinks

VARIABLES
    pc,                   \* position of the task running `run`
    panicMsg,             \* which panic ended `run` ("" when none)
    mainPc,               \* position of `main`
    mainResult,           \* value returned by `main`
    cancel,               \* the CancellationToken: TRUE once cancel() was called
    cancelInRound,        \* cancel() was called while a round was in progress
    sinks,                \* the Vec<TcpStream> behind the mutex, in order
    buffer,               \* the BytesMut the source is read into
    n,                    \* the n of the Ok(n) of the read being serviced
    index,                \* enumerate() index of the for loop (0-based)
    data,                 \* the Bytes split off the buffer for the current sink
    m,                    \* bytes of data written so far to the current sink
    failed_sink_indexes,  \* the Vec of indexes pushed in this round
    readOff,              \* the read branch of this select! is disabled
    acceptOff,            \* the accept branch of this select! is disabled
    srcPos,               \* bytes read from the source so far
    srcEof,               \* the source is at end-of-stream
    accepted,             \* connections accepted so far
    written,              \* per connection, the bytes its writer has taken
    eprinted,             \* connections an "Error writing" line was printed for
    \* history of the run, read by the properties only
    joinedAt,             \* per connection, srcPos when it was pushed
    payload,              \* bytes that the read being serviced produced
    preSinks,             \* sinks when the round began
    roundFailed,          \* connections whose write failed in this round
    roundZero,            \* those of them whose write returned Ok(0)
    got,                  \* per connection, bytes its writer took in this round
    failedEver,           \* connections whose write ever failed
    postSinks,            \* sinks right after the prune of the last round
    roundDone             \* the last round has been pruned, none began since

vars == << pc, panicMsg, mainPc, mainResult, cancel, cancelInRound, sinks, buffer, n, index,
           data, m, failed_sink_indexes, readOff, acceptOff, srcPos, srcEof,
           accepted, written, eprinted, joinedAt, payload, preSinks, roundFailed, roundZero,
           got, failedEver, postSinks, roundDone >>

runVars == << sinks, buffer, n, index, data, m, failed_sink_indexes >>
srcVars == << srcPos, srcEof >>
mainVars == << mainPc, mainResult, cancel, cancelInRound >>
histVars == << joinedAt, payload, preSinks, roundFailed, roundZero, got, failedEver,
               postSinks, roundDone >>

----------------------------------------------------------------------------
(* Pure helpers *)

\* The bytes at positions lo+1 .. hi of the source stream.
StreamBytes(lo, hi) == [i \in 1..(hi - lo) |-> lo + i]

\* BytesMut::split_to(at): the first `at` bytes, and what stays in the buffer.
SplitFront(buf, at) == SubSeq(buf, 1, at)
SplitRest(buf, at) == SubSeq(buf, at + 1, Len(buf))

\* Vec::remove(i), i 0-based: drops the element and shifts the rest left.
VecRemove(v, i) == SubSeq(v, 1, i) \o SubSeq(v, i + 2, Len(v))

\* for index in failed_sink_indexes { sinks.remove(index); }
\* Each removal acts on the vector the previous removals left; an index that
\* is no longer inside the vector panics.
RECURSIVE RemoveFailed(_, _)
RemoveFailed(v, idxs) ==
    IF idxs = << >> THEN [ok |-> TRUE, sinks |-> v]
    ELSE IF Head(idxs) >= Len(v) THEN [ok |-> FALSE, sinks |-> v]
    ELSE RemoveFailed(VecRemove(v, Head(idxs)), Tail(idxs))

Elems(s) == { s[i] : i \in 1..Len(s) }

NoBytes == [c \in ConnIds |-> << >>]

----------------------------------------------------------------------------
Init ==
    /\ pc = "parse_remote"
    /\ panicMsg = ""
    /\ mainPc = "ctrl_c"
    /\ mainResult = "none"
    /\ cancel = FALSE
    /\ cancelInRound = FALSE
    /\ sinks = << >>
    /\ buffer = << >>
    /\ n = 0
    /\ index = 0
    /\ data = << >>
    /\ m = 0
    /\ failed_sink_indexes = << >>
    /\ readOff = FALSE
    /\ acceptOff = FALSE
    /\ srcPos = 0
    /\ srcEof = FALSE
    /\ accepted = 0
    /\ written = NoBytes
    /\ eprinted = {}
    /\ joinedAt = [c \in ConnIds |-> 0]
    /\ payload = << >>
    /\ preSinks = << >>
    /\ roundFailed = {}
    /\ roundZero = {}
    /\ got = NoBytes
    /\ failedEver = {}
    /\ postSinks = << >>
    /\ roundDone = FALSE

----------------------------------------------------------------------------
(* Startup of run: four steps, each an .expect() that panics on failure *)

Panic(msg) ==
    /\ pc' = "panicked"
    /\ panicMsg' = msg

\* value.expect(msg): goes on with the value, or panics with msg.
Expect(next, msg) ==
    /\ \E ok \in BOOLEAN :
          IF ok THEN pc' = next /\ panicMsg' = panicMsg
                ELSE Panic(msg)
    /\ UNCHANGED << mainVars, runVars, readOff, acceptOff, srcVars, accepted,
                    written, eprinted, histVars >>

\* format!("{remote_host}:{remote_port}").parse::<SocketAddr>().expect(..)
ParseRemote ==
    /\ pc = "parse_remote"
    /\ Expect("connect", "Failed to parse remote host address")

\* TcpStream::connect(source).await.expect(..)
Connect ==
    /\ pc = "connect"
    /\ Expect("parse_local", "Failed to connect to remote host")

\* format!("{local_host}:{local_port}").parse::<SocketAddr>().expect(..)
ParseLocal ==
    /\ pc = "parse_local"
    /\ Expect("bind", "Failed to parse local host address")

\* TcpListener::bind(listener).await.expect(..)
Bind ==
    /\ pc = "bind"
    /\ Expect("select", "Failed to bind TCP listener")

StartupPanics == { "Failed to parse remote host address",
                   "Failed to connect to remote host",
                   "Failed to parse local host address",
                   "Failed to bind TCP listener" }

----------------------------------------------------------------------------
(* The loop of run: one tokio::select! per iteration *)

\* A variant of SelectCancel that also watches the token while a write to a
\* sink is awaited.
SelectCancel_MidRound ==
    /\ pc \in { "select", "while" }
    /\ cancel
    /\ pc' = "stopped"
    /\ readOff' = FALSE
    /\ acceptOff' = FALSE
    /\ UNCHANGED << panicMsg, mainVars, runVars, srcVars, accepted, written, eprinted,
                    histVars >>

\* _ = cancel.cancelled() => break;  then run returns Ok(()).
SelectCancel ==
    /\ pc = "select"
    /\ cancel
    /\ pc' = "stopped"
    /\ readOff' = FALSE
    /\ acceptOff' = FALSE
    /\ UNCHANGED << panicMsg, mainVars, runVars, srcVars, accepted, written, eprinted,
                    histVars >>

\* A variant of ReadInto that treats a read of 0 bytes as the end of the
\* loop (Ok(0) => break).
ReadInto_EofBreaks(limit) ==
    /\ ~readOff
    /\ \E k \in 0..MaxRead :
          /\ IF k = 0 THEN srcEof' = TRUE /\ pc' = "stopped"
                      ELSE /\ ~srcEof /\ srcPos + k <= limit /\ srcEof' = srcEof
                           /\ pc' = "for"
          /\ srcPos' = srcPos + k
          /\ buffer' = buffer \o StreamBytes(srcPos, srcPos + k)
          /\ payload' = StreamBytes(srcPos, srcPos + k)
          /\ n' = k
    /\ index' = 0
    /\ failed_sink_indexes' = << >>
    /\ readOff' = FALSE
    /\ acceptOff' = FALSE
    /\ preSinks' = sinks
    /\ roundFailed' = {}
    /\ roundZero' = {}
    /\ got' = NoBytes
    /\ roundDone' = FALSE
    /\ UNCHANGED << panicMsg, mainVars, sinks, data, m, accepted, written, eprinted,
                    joinedAt, failedEver, postSinks >>

\* Ok(n) = read => the read appended k bytes to the buffer; the branch takes
\* the lock and starts the for loop.  A read of 0 bytes is end-of-stream.
\* read_buf writes after the bytes the BytesMut already holds, and a BytesMut
\* reserves more space when it is full: BUFFER_SIZE is the capacity it starts
\* with, not a limit.  `limit` bounds the bytes the source produces.
ReadInto(limit) ==
    /\ ~readOff
    /\ \E k \in 0..MaxRead :
          /\ IF k = 0 THEN srcEof' = TRUE
                      ELSE ~srcEof /\ srcPos + k <= limit /\ srcEof' = srcEof
          /\ srcPos' = srcPos + k
          /\ buffer' = buffer \o StreamBytes(srcPos, srcPos + k)
          /\ payload' = StreamBytes(srcPos, srcPos + k)
          /\ n' = k
    /\ index' = 0
    /\ failed_sink_indexes' = << >>
    /\ pc' = "for"
    /\ readOff' = FALSE
    /\ acceptOff' = FALSE
    /\ preSinks' = sinks
    /\ roundFailed' = {}
    /\ roundZero' = {}
    /\ got' = NoBytes
    /\ roundDone' = FALSE
    /\ UNCHANGED << panicMsg, mainVars, sinks, data, m, accepted, written, eprinted,
                    joinedAt, failedEver, postSinks >>

ReadOk ==
    /\ pc = "select"
    /\ ReadInto(MaxBytes)

\* The same branch, for a source that produces up to LongBytes bytes.
ReadLong ==
    /\ pc = "select"
    /\ ReadInto(LongBytes)

\* A variant of ReadErr that unwraps the result of the read, as the startup
\* steps do with .expect(): a failed read ends run.
ReadErr_Unwrapped ==
    /\ pc = "select"
    /\ ~readOff
    /\ ~srcEof
    /\ readOff' = TRUE
    /\ Panic("Failed to read from remote host")
    /\ UNCHANGED << mainVars, runVars, acceptOff, srcVars,
                    accepted, written, eprinted, histVars >>

\* The read completed with an error: the pattern Ok(n) does not match, the
\* branch is disabled for the rest of this select!.
ReadErr ==
    /\ pc = "select"
    /\ ~readOff
    /\ ~srcEof
    /\ readOff' = TRUE
    /\ UNCHANGED << pc, panicMsg, mainVars, runVars, acceptOff, srcVars,
                    accepted, written, eprinted, histVars >>

\* A variant of ForSink whose while loop is entered when m <= n, so also for
\* a read of 0 bytes.
ForSink_WhileLe ==
    /\ pc = "for"
    /\ IF index < Len(sinks)
       THEN IF n > Len(buffer)
            THEN /\ Panic("split_to out of bounds")
                 /\ UNCHANGED << buffer, data, m, index >>
            ELSE /\ data' = SplitFront(buffer, n)
                 /\ buffer' = SplitRest(buffer, n)
                 /\ m' = 0
                 /\ panicMsg' = panicMsg
                 /\ IF 0 <= n THEN pc' = "while" /\ index' = index
                              ELSE pc' = "for" /\ index' = index + 1
       ELSE /\ pc' = "prune"
            /\ UNCHANGED << panicMsg, buffer, data, m, index >>
    /\ UNCHANGED << mainVars, sinks, n, failed_sink_indexes, readOff,
                    acceptOff, srcVars, accepted, written, eprinted, histVars >>

\* Head of the for loop: either the next sink gets buffer.split_to(n), which
\* panics when the buffer holds fewer than n bytes, or the loop is over.
ForSink ==
    /\ pc = "for"
    /\ IF index < Len(sinks)
       THEN IF n > Len(buffer)
            THEN /\ Panic("split_to out of bounds")
                 /\ UNCHANGED << buffer, data, m, index >>
            ELSE /\ data' = SplitFront(buffer, n)
                 /\ buffer' = SplitRest(buffer, n)
                 /\ m' = 0
                 /\ panicMsg' = panicMsg
                 /\ IF 0 < n THEN pc' = "while" /\ index' = index
                             ELSE pc' = "for" /\ index' = index + 1
       ELSE /\ pc' = "prune"
            /\ UNCHANGED << panicMsg, buffer, data, m, index >>
    /\ UNCHANGED << mainVars, sinks, n, failed_sink_indexes, readOff,
                    acceptOff, srcVars, accepted, written, eprinted, histVars >>

\* failed_sink_indexes.push(index); break;  and on to the next sink.
RecordFailed(diagnostic) ==
    /\ eprinted' = (IF diagnostic THEN eprinted \cup {sinks[index + 1]}
                                  ELSE eprinted)
    /\ failed_sink_indexes' = Append(failed_sink_indexes, index)
    /\ roundFailed' = roundFailed \cup {sinks[index + 1]}
    /\ roundZero' = (IF diagnostic THEN roundZero
                                   ELSE roundZero \cup {sinks[index + 1]})
    /\ failedEver' = failedEver \cup {sinks[index + 1]}
    /\ index' = index + 1
    /\ pc' = "for"
    /\ UNCHANGED << panicMsg, mainVars, sinks, buffer, n, data, m, readOff,
                    acceptOff, srcVars, accepted, written, joinedAt, payload,
                    preSinks, got, postSinks, roundDone >>

\* writer.write_buf(&mut data).await inside while m < n returned Err(e):
\* eprintln!("Error writing: {}", e), then the sink is recorded.
WriteErr ==
    /\ pc = "while"
    /\ RecordFailed(TRUE)

\* writer.write_buf(&mut data).await returned Ok(0).
WriteZero ==
    /\ pc = "while"
    /\ RecordFailed(FALSE)

\* writer.write_buf(&mut data).await returned Ok(k), k > 0: the writer took
\* the first k bytes of data; m += k; the while loop goes on while m < n.
WriteOk ==
    /\ pc = "while"
    /\ LET s == sinks[index + 1] IN
       \E k \in 1..Len(data) :
          /\ written' = [written EXCEPT ![s] = @ \o SubSeq(data, 1, k)]
          /\ got' = [got EXCEPT ![s] = @ \o SubSeq(data, 1, k)]
          /\ data' = SubSeq(data, k + 1, Len(data))
          /\ m' = m + k
          /\ IF m + k < n THEN pc' = "while" /\ index' = index
                          ELSE pc' = "for" /\ index' = index + 1
    /\ UNCHANGED << panicMsg, mainVars, sinks, buffer, n, failed_sink_indexes,
                    readOff, acceptOff, srcVars, accepted, eprinted, joinedAt, payload,
                    preSinks, roundFailed, roundZero, failedEver, postSinks,
                    roundDone >>

\* for index in failed_sink_indexes { sinks.remove(index); }  then the guard
\* is dropped and the loop goes back to the select!.
Prune ==
    /\ pc = "prune"
    /\ LET r == RemoveFailed(sinks, failed_sink_indexes) IN
       IF r.ok
       THEN /\ sinks' = r.sinks
            /\ postSinks' = r.sinks
            /\ roundDone' = TRUE
            /\ pc' = "select"
            /\ panicMsg' = panicMsg
            /\ n' = 0
            /\ index' = 0
            /\ data' = << >>
            /\ m' = 0
            /\ failed_sink_indexes' = << >>
       ELSE /\ Panic("removal index out of bounds")
            /\ UNCHANGED << sinks, postSinks, roundDone, n, index, data, m,
                            failed_sink_indexes >>
    /\ UNCHANGED << mainVars, buffer, readOff, acceptOff, srcVars, accepted,
                    written, eprinted, joinedAt, payload, preSinks, roundFailed,
                    roundZero, got, failedEver >>

\* Ok((stream, _)) = listener.accept() => sinks.lock().await.push(stream)
Accept ==
    /\ pc = "select"
    /\ ~acceptOff
    /\ accepted < MaxSinks
    /\ accepted' = accepted + 1
    /\ sinks' = Append(sinks, accepted + 1)
    /\ joinedAt' = [joinedAt EXCEPT ![accepted + 1] = srcPos]
    /\ readOff' = FALSE
    /\ acceptOff' = FALSE
    /\ UNCHANGED << pc, panicMsg, mainVars, buffer, n, index, data, m,
                    failed_sink_indexes, srcVars, written, eprinted, payload, preSinks,
                    roundFailed, roundZero, got, failedEver, postSinks, roundDone >>

\* accept() completed with an error: the branch is disabled for this select!.
AcceptErr ==
    /\ pc = "select"
    /\ ~acceptOff
    /\ acceptOff' = TRUE
    /\ UNCHANGED << pc, panicMsg, mainVars, runVars, readOff, srcVars,
                    accepted, written, eprinted, histVars >>

----------------------------------------------------------------------------
(* main: waits for ctrl_c, cancels, returns; the runtime then shuts down *)

\* tokio::signal::ctrl_c().await? returned Ok: cancel.cancel(); Ok(())
MainCtrlC ==
    /\ mainPc = "ctrl_c"
    /\ cancel' = TRUE
    /\ cancelInRound' = (pc \in { "for", "while", "prune" })
    /\ mainPc' = "returned"
    /\ mainResult' = "Ok"
    /\ UNCHANGED << pc, panicMsg, runVars, readOff, acceptOff, srcVars,
                    accepted, written, eprinted, histVars >>

\* ctrl_c().await? returned Err: `?` returns it from main, no cancel().
MainCtrlCErr ==
    /\ mainPc = "ctrl_c"
    /\ mainPc' = "returned"
    /\ mainResult' = "Err"
    /\ UNCHANGED << pc, panicMsg, cancel, cancelInRound, runVars, readOff, acceptOff,
                    srcVars, accepted, written, eprinted, histVars >>

\* Positions where the task of run is suspended (or not yet polled).
Suspended == { "parse_remote", "connect", "bind", "select", "while" }

\* main returned: the runtime is dropped and the spawned task, which nobody
\* joins, is dropped at its next suspension.
RuntimeShutdown ==
    /\ mainPc = "returned"
    /\ pc \in Suspended
    /\ pc' = "dropped"
    /\ UNCHANGED << panicMsg, mainVars, runVars, readOff, acceptOff, srcVars,
                    accepted, written, eprinted, histVars >>

----------------------------------------------------------------------------
Next ==
    \/ ParseRemote
    \/ Connect
    \/ ParseLocal
    \/ Bind
    \/ SelectCancel
    \/ ReadOk
    \/ ReadErr
    \/ Accept
    \/ AcceptErr
    \/ ForSink
    \/ WriteErr
    \/ WriteZero
    \/ WriteOk
    \/ Prune
    \/ MainCtrlC
    \/ MainCtrlCErr
    \/ RuntimeShutdown

Spec == Init /\ [][Next]_vars

\* A long run of reads with no client ever connecting and no interrupt,
\* from the state in which run enters its loop.
LoopInit ==
    /\ pc = "select"
    /\ panicMsg = ""
    /\ mainPc = "ctrl_c"
    /\ mainResult = "none"
    /\ cancel = FALSE
    /\ cancelInRound = FALSE
    /\ sinks = << >>
    /\ buffer = << >>
    /\ n = 0
    /\ index = 0
    /\ data = << >>
    /\ m = 0
    /\ failed_sink_indexes = << >>
    /\ readOff = FALSE
    /\ acceptOff = FALSE
    /\ srcPos = 0
    /\ srcEof = FALSE
    /\ accepted = 0
    /\ written = NoBytes
    /\ eprinted = {}
    /\ joinedAt = [c \in ConnIds |-> 0]
    /\ payload = << >>
    /\ preSinks = << >>
    /\ roundFailed = {}
    /\ roundZero = {}
    /\ got = NoBytes
    /\ failedEver = {}
    /\ postSinks = << >>
    /\ roundDone = FALSE

LongNext ==
    \/ ReadLong
    \/ ForSink
    \/ Prune

LongSpec == LoopInit /\ [][LongNext]_vars

TypeOK ==
    /\ pc \in { "parse_remote", "connect", "parse_local", "bind", "select",
                "for", "while", "prune", "stopped", "panicked", "dropped" }
    /\ mainPc \in { "ctrl_c", "returned" }
    /\ mainResult \in { "none", "Ok", "Err" }
    /\ cancel \in BOOLEAN
    /\ Elems(sinks) \subseteq 1..accepted
    /\ Len(buffer) <= MaxBytes
    /\ n \in 0..MaxRead
    /\ srcPos \in 0..MaxBytes
    /\ accepted \in 0..MaxSinks
    /\ pc = "while" => index < Len(sinks) /\ m < n /\ Len(data) = n - m

----------------------------------------------------------------------------
(* Fairness: the task of run keeps being polled, every suspended operation *)
(* of a round completes, and the select!, which picks the branch it polls  *)
(* first at random, does not ignore a ready branch forever.  At the        *)
(* end-of-stream the read is always ready: it completes at once with Ok(0).*)
FairSpec ==
    /\ Spec
    /\ WF_vars(srcEof /\ ReadOk)
    /\ WF_vars(ParseRemote \/ Connect \/ ParseLocal \/ Bind)
    /\ WF_vars(ForSink \/ WriteErr \/ WriteZero \/ WriteOk \/ Prune)
    /\ SF_vars(SelectCancel)
    /\ SF_vars(Accept)

----------------------------------------------------------------------------
(* Vocabulary of the properties *)

Joined == 1..accepted

\* Between two iterations of the loop, or after it.
AtRest == pc \in { "select", "stopped" }

InRound == pc \in { "for", "while", "prune" }

\* Every sink of the round has been attempted, the prune is next.
AllAttempted == pc = "prune"

\* run was ended by a panic raised while servicing a read.
RoundPanicked == pc = "panicked" /\ panicMsg \notin StartupPanics

\* The sinks of preSinks that did not fail in the round, in their order.
Survivors == SelectSeq(preSinks, LAMBDA s : s \notin roundFailed)

\* The bytes of the current round's payload among what s took in the round.
PayloadPart(s) == SelectSeq(got[s], LAMBDA b : b \in Elems(payload))

----------------------------------------------------------------------------
(* C1: Byte/order preservation.  Between rounds, what has been written to  *)
(* a sink that never failed is exactly the source bytes read since that    *)
(* sink was added, in read order, nothing repeated, dropped or replaced.   *)
C1_ByteOrderPreservation ==
    AtRest =>
        \A s \in Joined \ failedEver :
            written[s] = StreamBytes(joinedAt[s], srcPos)

(* C2: Fan-out equality within a round.  A read of n > 0 bytes serviced    *)
(* with k >= 2 sinks none of which fails offers every one of them the      *)
(* whole n-byte payload, and the round completes.                          *)
C2_FanOutEquality ==
    (Len(payload) > 0 /\ Len(preSinks) >= 2 /\ roundFailed = {}) =>
        /\ ~RoundPanicked
        /\ (AllAttempted \/ roundDone) =>
               \A s \in Elems(preSinks) : got[s] = payload

(* C3: Failure isolation.  In a round where some sinks fail, every other   *)
(* sink of the set still gets the full payload of the round and is still   *)
(* in the set after the round.                                             *)
C3_FailureIsolation ==
    roundFailed # {} =>
        /\ ~RoundPanicked
        /\ roundDone =>
               \A s \in Elems(preSinks) \ roundFailed :
                   got[s] = payload /\ s \in Elems(postSinks)

(* C4: Exact pruning.  After a round the sink set is the set before the    *)
(* round without the sinks that failed in it, the others kept in order.    *)
C4_ExactPruning ==
    roundDone => postSinks = Survivors

(* C5: A broadcast round never aborts the loop: no panic is raised while a *)
(* read is serviced, neither by the split of the buffer nor by a removal.  *)
C5_RoundNeverAborts ==
    ~RoundPanicked

(* C6: Late join isolation.  A sink never gets a byte that was read before *)
(* it was added, and the first byte it gets is the first byte read after   *)
(* it was added.                                                           *)
C6_LateJoinIsolation ==
    \A s \in Joined :
        /\ \A i \in 1..Len(written[s]) : written[s][i] > joinedAt[s]
        /\ written[s] # << >> => written[s][1] = joinedAt[s] + 1

(* C7: Atomicity of a round relative to accept.  No sink is added during a *)
(* round, and at the end of the round every sink that did not fail has     *)
(* taken either the whole payload of the round (when it was in the set at  *)
(* the start of the round) or none of it, never a part of it.              *)
C7_RoundAtomicity ==
    /\ InRound => sinks = preSinks
    /\ AllAttempted =>
           \A s \in Joined \ roundFailed :
               IF s \in Elems(preSinks) THEN PayloadPart(s) = payload
                                        ELSE PayloadPart(s) = << >>

(* C8: Cancellation stops servicing.  Once cancel() has been called, no    *)
(* step of the loop begins to service a read and none adds a sink.         *)
C8_CancellationStopsServicing ==
    [][cancel => /\ ~(pc = "select" /\ pc' = "for")
                 /\ accepted' = accepted]_vars

(* C9: Cancellation termination.  Once cancel() has been called on a       *)
(* started loop, the loop eventually is Stopped (run returns Ok(())), and  *)
(* no step taken after the call ends run in an abort.                      *)
C9_CancellationTermination ==
    /\ (cancel /\ (pc = "select" \/ InRound)) ~> (pc = "stopped")
    /\ [][(cancel /\ (pc = "select" \/ InRound)) => pc' # "panicked"]_vars

(* C10: Fatal startup.  When one of the four startup steps fails, run ends *)
(* in a fatal error that its caller gets, it is not retried, no client is  *)
(* accepted or added and no read of the source is serviced.                *)
C10_FatalStartup ==
    panicMsg \in StartupPanics =>
        /\ pc = "panicked"
        /\ sinks = << >> /\ accepted = 0
        /\ srcPos = 0 /\ ~srcEof /\ payload = << >>
        /\ mainPc = "returned" => mainResult = "Err"

(* C11: Shutdown ordering.  main calls cancel() and ends the process only  *)
(* after the loop is Stopped: main has never returned from the interrupt   *)
(* while the loop is still Waiting or in the middle of a round.            *)
C11_ShutdownOrdering ==
    (mainPc = "returned" /\ cancel) => ~(pc = "select" \/ InRound)

\* s is a run of consecutive bytes of the source stream.
Consecutive(s) == \A i \in 1..(Len(s) - 1) : s[i + 1] = s[i] + 1

\* How often the sink c was pushed on failed_sink_indexes in this round.
TimesRecorded(c) ==
    Cardinality({ i \in 1..Len(failed_sink_indexes) :
                     sinks[failed_sink_indexes[i] + 1] = c })

(* C12: Per-sink write loop.  For a sink whose writes each take some bytes *)
(* the loop writes only the unsent tail, ends exactly when the count is n, *)
(* leaves the sink not failed, and what was written to the sink is the n   *)
(* bytes of the round's payload, once each and in order.                   *)
C12_PerSinkWriteLoop ==
    /\ pc = "while" =>
           /\ m = Len(got[sinks[index + 1]]) /\ m < n
           /\ got[sinks[index + 1]] \o data = payload
    /\ AllAttempted =>
           \A s \in Elems(preSinks) \ roundFailed :
               Len(got[s]) = n /\ got[s] = payload

(* C13: Zero-byte write is a failure.  A sink whose write returned Ok(0)   *)
(* has the rest of its bytes abandoned, is recorded as failed exactly once *)
(* in the round, and is absent from the sink set after the round.          *)
C13_ZeroWriteIsFailure ==
    /\ AllAttempted =>
           \A s \in roundZero :
               Len(got[s]) < n /\ TimesRecorded(s) = 1
    /\ roundDone =>
           \A s \in roundZero : s \notin Elems(postSinks)

(* C14: Buffer reset.  Between two reads the transfer buffer is empty, for *)
(* any number of sinks, so what a round hands to a sink is exactly the     *)
(* bytes of the read that started the round.                               *)
C14_BufferReset ==
    /\ AtRest => buffer = << >>
    /\ (pc = "while" /\ m = 0) => data = payload

(* C15: Bounded buffer.  The transfer buffer never holds more than         *)
(* BUFFER_SIZE bytes, whatever the reads and the number of sinks, a long   *)
(* run of reads with no sink connected included.                           *)
C15_BoundedBuffer ==
    Len(buffer) <= BUFFER_SIZE

(* C16 as stated: Source disconnect.  After the source reached its         *)
(* end-of-stream the read branch no longer fires (no further round is      *)
(* serviced), and the loop does not end because of it: it ends only by     *)
(* observing the cancellation.                                             *)
C16_SourceDisconnect ==
    [][srcEof => /\ ~(pc = "select" /\ pc' = "for")
                 /\ (pc' = "stopped" => cancel)]_vars

(* C16 amended: after end-of-stream every read completes with Ok(0), so    *)
(* the read branch keeps firing with n = 0.  Such a round writes nothing,  *)
(* records no failure and does not abort; the loop does not end because of *)
(* it (it ends only by observing the cancellation), is back in Waiting     *)
(* after each such round, and still services cancellation and accepts.     *)
C16_SourceDisconnectAmended ==
    /\ [][srcEof' => /\ (pc = "select" /\ pc' = "for") => n' = 0
                     /\ written' = written
                     /\ failedEver' = failedEver
                     /\ pc' # "panicked"
                     /\ (pc' = "stopped" /\ pc # "stopped") =>
                            (cancel /\ pc = "select")]_vars
    /\ (srcEof /\ InRound) ~> (pc = "select")
    /\ (srcEof /\ cancel /\ pc = "select") ~>
           (pc = "stopped" \/ pc = "dropped")
    /\ \A k \in 0..(MaxSinks - 1) :
           (srcEof /\ pc = "select" /\ accepted = k) ~>
               (accepted > k \/ mainPc = "returned")

\* After end-of-stream a round was serviced and pruned with a sink in the
\* set, and the loop then observed the cancellation.
C16_Witness ==
    /\ srcEof /\ roundDone /\ payload = << >>
    /\ Len(sinks) >= 1
    /\ pc = "stopped"

\* The for loop of the round went through every sink of the set: each one
\* was either written to or recorded as failed (when there was a byte to write).
EverySinkAttempted ==
    /\ index = Len(preSinks)
    /\ Len(payload) > 0 =>
           \A s \in Elems(preSinks) : got[s] # << >> \/ s \in roundFailed

C18_ZeroReadNoOp ==
    [][((pc = "select" /\ pc' = "for" /\ n' = 0) \/ (InRound /\ n = 0)) =>
           /\ written' = written
           /\ roundFailed' = {} /\ failed_sink_indexes' = << >>
           /\ failedEver' = failedEver
           /\ sinks' = sinks
           /\ buffer' = buffer
           /\ pc' # "panicked"]_vars

\* A read of 0 bytes has been serviced for two sinks, with bytes left in the
\* buffer; the prune is next.
C18_Witness ==
    /\ pc = "prune" /\ n = 0 /\ payload = << >>
    /\ Len(sinks) >= 2 /\ index = Len(sinks)
    /\ buffer # << >>

(* C19: Source read error is swallowed.  When a read completes with an    *)
(* error no round is run for it, the sink set and the buffer are as they   *)
(* were, run does not end with an error, the same select! can still take   *)
(* an accept or a cancellation, and a later iteration reads again.         *)
C19_ReadErrorSwallowed ==
    /\ [][(~readOff /\ readOff') =>
              /\ pc = "select" /\ pc' = "select"
              /\ panicMsg' = panicMsg
              /\ sinks' = sinks /\ buffer' = buffer /\ written' = written
              /\ srcPos' = srcPos /\ payload' = payload
              /\ roundDone' = roundDone]_vars
    /\ [][readOff => ~(pc = "select" /\ pc' = "for")]_vars
    /\ [][(readOff /\ accepted' # accepted) => ~readOff']_vars
    /\ [](readOff => pc \in { "select", "dropped" })
    /\ []((readOff /\ pc = "select") =>
              /\ cancel => ENABLED SelectCancel
              /\ (~acceptOff /\ accepted < MaxSinks) => ENABLED Accept)

\* A read failed with a sink in the set and bytes already read; the loop is
\* still in the select! of that iteration.
C19_Witness ==
    /\ readOff /\ pc = "select"
    /\ Len(sinks) >= 1 /\ srcPos >= 1

(* C20: No starvation of accept.  While the interrupt has not come, a      *)
(* client pending on the listener is eventually accepted, and it is in the *)
(* sink set once, whatever the read branch does meanwhile; in particular   *)
(* the loop does not abort with the client still pending.                  *)
C20_AcceptNotStarved ==
    /\ \A k \in 0..(MaxSinks - 1) :
           (pc = "select" /\ accepted = k /\ mainPc = "ctrl_c") ~>
               (accepted > k \/ mainPc = "returned")
    /\ [](\A i, j \in 1..Len(sinks) : sinks[i] = sinks[j] => i = j)
    /\ [][(mainPc = "ctrl_c" /\ accepted < MaxSinks /\ (pc = "select" \/ InRound))
              => pc' # "panicked"]_vars

----------------------------------------------------------------------------
(* Parts of the statements above that do hold of the code *)

\* Of C7: the sink set is not touched between the start of a round and its
\* prune; sinks are pushed only by the accept branch of the select!.
NoAddDuringRound ==
    InRound => sinks = preSinks

\* Of C10: a failed startup step ends run for good, with no client accepted
\* and no read of the source serviced.
StartupFailureServesNothing ==
    panicMsg \in StartupPanics =>
        /\ pc = "panicked"
        /\ sinks = << >> /\ accepted = 0
        /\ srcPos = 0 /\ ~srcEof /\ payload = << >>


\* Of C12: the while loop hands the writer the unsent tail of the slice that
\* was split off for the sink, and ends when all n bytes of it were taken.
WriteLoopWritesItsSlice ==
    /\ pc = "while" =>
           /\ m = Len(got[sinks[index + 1]]) /\ m < n /\ Len(data) = n - m
           /\ Consecutive(got[sinks[index + 1]] \o data)
    /\ AllAttempted =>
           \A s \in Elems(preSinks) \ roundFailed :
               Len(got[s]) = n /\ Consecutive(got[s])

\* Of C13: a write that returned Ok(0) abandons the rest of the bytes and is
\* recorded exactly once, as a write that returned Err is.
FailedWriteRecordedOnce ==
    AllAttempted =>
        \A s \in roundFailed : Len(got[s]) < n /\ TimesRecorded(s) = 1

====
